---- MODULE Spec2Model ----
(***************************************************************************)
(* A model of excel_wrapper.py: the ExcelWrapper table store, its export   *)
(* pipeline, the natural multi-key sort and the column-letter encoding.    *)
(*                                                                         *)
(* Python values are modelled as tagged records:                           *)
(*   None          [kind |-> "none"]                                       *)
(*   a str         [kind |-> "str", s |-> <<characters>>]                  *)
(*   an int        [kind |-> "int", n |-> value]                           *)
(*   a list/tuple  [kind |-> "list", items |-> <<values>>]                 *)
(* Header names and sheet names are TLA+ strings (opaque hashable values). *)
(***************************************************************************)
EXTENDS Integers, Sequences, FiniteSets, TLC

VARIABLES
    output_data,      \* per instance: the ordered dict of sheets (self.output_data)
    cell_styles,      \* class attribute ExcelWrapper.cell_styles
    table_styles,     \* class attribute ExcelWrapper.table_styles
    frozen_columns,   \* class attribute ExcelWrapper.frozen_columns
    excel_workbook,   \* the Workbook of the last export_excel call
    ret,              \* the last call: operation, receiver, arguments, raised error
    ncalls,           \* number of API calls made so far
    sort_request,     \* history: per instance and sheet, the last successful
                      \* sort_data call (the names passed, the headers then)
    sort_in,          \* natural_sort_multiple_columns: the list before the call
    sort_keys_in,     \* natural_sort_multiple_columns: sort_keys
    sort_out,         \* natural_sort_multiple_columns: outcome of the call
    col,              \* _col_to_excel: the argument
    excel_col         \* _col_to_excel: the returned string

storeVars == <<output_data, cell_styles, table_styles, frozen_columns,
               excel_workbook, ret, ncalls, sort_request>>
sortVars == <<sort_in, sort_keys_in, sort_out>>
colVars == <<col, excel_col>>
vars == <<output_data, cell_styles, table_styles, frozen_columns,
          excel_workbook, ret, ncalls, sort_request, sort_in, sort_keys_in, sort_out,
          col, excel_col>>

----------------------------------------------------------------------------
(* Bounds of the model *)

MaxCol == 4000
MaxSortRows == 3

----------------------------------------------------------------------------
(* Python scalars and characters *)

PyNone == [kind |-> "none"]
PyStr(s) == [kind |-> "str", s |-> s]
PyInt(n) == [kind |-> "int", n |-> n]
PyList(xs) == [kind |-> "list", items |-> xs]

UPPER == <<"A","B","C","D","E","F","G","H","I","J","K","L","M",
           "N","O","P","Q","R","S","T","U","V","W","X","Y","Z">>
LOWER == <<"a","b","c","d","e","f","g","h","i","j","k","l","m",
           "n","o","p","q","r","s","t","u","v","w","x","y","z">>
DIGITS == <<"0","1","2","3","4","5","6","7","8","9">>

CodePoints == (48..57) \cup (65..90) \cup (97..122)

chr(n) ==
    IF n \in 48..57 THEN DIGITS[n - 47]
    ELSE IF n \in 65..90 THEN UPPER[n - 64]
    ELSE LOWER[n - 96]

ord(c) == CHOOSE n \in CodePoints : chr(n) = c

is_digit_char(c) == ord(c) \in 48..57

lower_char(c) == IF ord(c) \in 65..90 THEN chr(ord(c) + 32) ELSE c

\* str.lower()
lower(s) == [i \in 1..Len(s) |-> lower_char(s[i])]

\* str.isdigit(): non-empty and every character a digit
isdigit(s) == Len(s) > 0 /\ \A i \in 1..Len(s) : is_digit_char(s[i])

RECURSIVE int_of(_)
\* int(text) for a run of decimal digits
int_of(s) ==
    IF Len(s) = 0 THEN 0
    ELSE 10 * int_of(SubSeq(s, 1, Len(s) - 1)) + (ord(s[Len(s)]) - 48)

RECURSIVE digits_of(_)
digits_of(n) ==
    IF n < 10 THEN <<chr(48 + n)>>
    ELSE Append(digits_of(n \div 10), chr(48 + (n % 10)))

\* str(x) for the scalar kinds
str_of(v) ==
    IF v.kind = "str" THEN v.s
    ELSE IF v.kind = "int" THEN digits_of(v.n)
    ELSE <<"N","o","n","e">>

----------------------------------------------------------------------------
(* ExcelWrapper._col_to_excel *)

RECURSIVE col_loop(_, _)
col_loop(div, acc) ==
    IF div = 0 THEN acc
    ELSE col_loop((div - 1) \div 26, <<chr(((div - 1) % 26) + 65)>> \o acc)

_col_to_excel_shifted(c) == col_loop(c + 1, <<>>)

_col_to_excel(c) == col_loop(c, <<>>)

----------------------------------------------------------------------------
(* natural_sort_multiple_columns *)

\* index of the first digit of s at or after i, Len(s)+1 if there is none
RECURSIVE first_digit(_, _)
first_digit(s, i) ==
    IF i > Len(s) THEN Len(s) + 1
    ELSE IF is_digit_char(s[i]) THEN i
    ELSE first_digit(s, i + 1)

\* index after the digit run of s that starts at i
RECURSIVE run_end(_, _)
run_end(s, i) ==
    IF i > Len(s) THEN i
    ELSE IF is_digit_char(s[i]) THEN run_end(s, i + 1)
    ELSE i

RECURSIVE re_split(_)
\* re.split('([0-9]+)', s): text, digits, text, ..., text
re_split(s) ==
    LET i == first_digit(s, 1) IN
    IF i > Len(s) THEN <<s>>
    ELSE LET j == run_end(s, i) IN
         <<SubSeq(s, 1, i - 1), SubSeq(s, i, j - 1)>>
             \o re_split(SubSeq(s, j, Len(s)))

natural_sort_key(s) ==
    LET parts == re_split(s) IN
    [i \in 1..Len(parts) |->
        IF isdigit(parts[i]) THEN PyInt(int_of(parts[i]))
        ELSE PyStr(lower(parts[i]))]

RECURSIVE str_cmp(_, _)
\* comparison of two strings by code point: "lt", "eq" or "gt"
str_cmp(a, b) ==
    IF Len(a) = 0 /\ Len(b) = 0 THEN "eq"
    ELSE IF Len(a) = 0 THEN "lt"
    ELSE IF Len(b) = 0 THEN "gt"
    ELSE IF ord(a[1]) < ord(b[1]) THEN "lt"
    ELSE IF ord(a[1]) > ord(b[1]) THEN "gt"
    ELSE str_cmp(Tail(a), Tail(b))

\* comparison of two key segments; int against str raises TypeError
seg_cmp(a, b) ==
    IF a.kind = "int" /\ b.kind = "int"
    THEN (IF a.n < b.n THEN "lt" ELSE IF a.n > b.n THEN "gt" ELSE "eq")
    ELSE IF a.kind = "str" /\ b.kind = "str" THEN str_cmp(a.s, b.s)
    ELSE "TypeError"

RECURSIVE key_cmp(_, _)
\* list comparison of two natural keys: the first differing position decides
key_cmp(a, b) ==
    IF Len(a) = 0 /\ Len(b) = 0 THEN "eq"
    ELSE IF Len(a) = 0 THEN "lt"
    ELSE IF Len(b) = 0 THEN "gt"
    ELSE IF a[1] = b[1] THEN key_cmp(Tail(a), Tail(b))
    ELSE seg_cmp(a[1], b[1])

RECURSIVE row_key_cmp(_, _)
\* list comparison of two composite keys (one natural key per sort column)
row_key_cmp(a, b) ==
    IF Len(a) = 0 /\ Len(b) = 0 THEN "eq"
    ELSE IF Len(a) = 0 THEN "lt"
    ELSE IF Len(b) = 0 THEN "gt"
    ELSE IF a[1] = b[1] THEN row_key_cmp(Tail(a), Tail(b))
    ELSE key_cmp(a[1], b[1])

\* the lambda of line 55; sort_keys hold 0-based column indexes
row_key(x, sort_keys) ==
    [i \in 1..Len(sort_keys) |-> natural_sort_key(str_of(x[sort_keys[i] + 1]))]

\* x[key] raises IndexError for a key beyond the row
key_index_ok(x, sort_keys) ==
    \A i \in 1..Len(sort_keys) : sort_keys[i] + 1 \in 1..Len(x)

RECURSIVE insert_unstable(_, _, _)
insert_unstable(sorted, item, sort_keys) ==
    IF Len(sorted) = 0 THEN <<item>>
    ELSE IF row_key_cmp(row_key(item, sort_keys),
                        row_key(sorted[Len(sorted)], sort_keys)) \in {"lt", "eq"}
    THEN Append(insert_unstable(SubSeq(sorted, 1, Len(sorted) - 1), item, sort_keys),
                sorted[Len(sorted)])
    ELSE Append(sorted, item)

RECURSIVE insert_sorted(_, _, _)
\* list.sort is stable: an item goes after every item that is not greater
insert_sorted(sorted, item, sort_keys) ==
    IF Len(sorted) = 0 THEN <<item>>
    ELSE IF row_key_cmp(row_key(item, sort_keys),
                        row_key(sorted[Len(sorted)], sort_keys)) = "lt"
    THEN Append(insert_sorted(SubSeq(sorted, 1, Len(sorted) - 1), item, sort_keys),
                sorted[Len(sorted)])
    ELSE Append(sorted, item)

RECURSIVE sort_rows(_, _)
sort_rows(data, sort_keys) ==
    IF Len(data) = 0 THEN <<>>
    ELSE insert_sorted(sort_rows(SubSeq(data, 1, Len(data) - 1), sort_keys),
                       data[Len(data)], sort_keys)

keys_comparable(data, sort_keys) ==
    \A i, j \in 1..Len(data) :
        row_key_cmp(row_key(data[i], sort_keys), row_key(data[j], sort_keys))
            # "TypeError"

\* data.sort(key=...): the keys are computed first, so a key that raises
\* leaves the list as it was
natural_sort_multiple_columns(data, sort_keys) ==
    IF \E i \in 1..Len(data) : ~key_index_ok(data[i], sort_keys)
    THEN [err |-> "IndexError", data |-> data]
    ELSE IF ~keys_comparable(data, sort_keys)
    THEN [err |-> "TypeError", data |-> data]
    ELSE [err |-> "none", data |-> sort_rows(data, sort_keys)]

----------------------------------------------------------------------------
(* The table store: ExcelWrapper.output_data *)

SheetNames == {"S", "T"}
HeaderNames == {"A", "B"}
Instances == {"a", "b"}

ErrNone == "none"
ErrDuplicateHeader == "ValueError: Duplicate Header Found."
ErrColumnCount == "ValueError: Invalid Data Found, Column Count Mismatch"
ErrDataType == "TypeError: Invalid Data Type, Requires List, Tuple, or Set"
ErrIndex == "IndexError"
ErrType == "TypeError"
ErrValue == "ValueError"
ErrNoSortSheet == "SystemExit: Cannot sort where no headers have been found."
ErrSortHeader == "SystemExit: Invalid Sort Header"
ErrNoHeaders == "SystemExit: No Headers Found"
ErrMergeColumnCount == "SystemExit: Invalid Data Found, Column Count Mismatch"
ErrInvalidHeader == "RuntimeError: Invalid Header"

\* a dict kept in insertion order is a sequence of entries with distinct names
has_sheet(od, sheet_name) == \E i \in 1..Len(od) : od[i].name = sheet_name

sheet_index(od, sheet_name) == CHOOSE i \in 1..Len(od) : od[i].name = sheet_name

get_sheet(od, sheet_name) == od[sheet_index(od, sheet_name)]

\* 'sort_keys' is only ever read through a truth test (line 249), so the
\* missing key is modelled as the empty list
_create_sheet(od, sheet_name) ==
    IF has_sheet(od, sheet_name) THEN od
    ELSE Append(od, [name |-> sheet_name, headers |-> <<>>, data |-> <<>>,
                     sort_keys |-> <<>>])

has_duplicates_never(data_list) == FALSE

\* len(data_list) != len(set(data_list))
has_duplicates(data_list) ==
    Len(data_list) # Cardinality({data_list[i] : i \in 1..Len(data_list)})

\* [item if item is not None else "" for item in row]
normalize(row) ==
    [i \in 1..Len(row) |-> IF row[i] = PyNone THEN PyStr(<<>>) ELSE row[i]]

\* len(x): defined for lists and strings only
has_len(v) == v.kind \in {"list", "str"}

py_len(v) == IF v.kind = "list" THEN Len(v.items) ELSE Len(v.s)

\* the items of a list, or the characters of a str, as list elements
py_items(v) ==
    IF v.kind = "list" THEN v.items
    ELSE [i \in 1..Len(v.s) |-> PyStr(<<v.s[i]>>)]

RECURSIVE batch_loop(_, _, _)
\* the loop of lines 158-163: rows are appended until one has the wrong length
batch_loop(rows, header_count, stored) ==
    IF Len(rows) = 0 THEN [err |-> ErrNone, data |-> stored]
    ELSE IF ~has_len(rows[1]) THEN [err |-> ErrType, data |-> stored]
    ELSE IF py_len(rows[1]) # header_count
    THEN [err |-> ErrColumnCount, data |-> stored]
    ELSE batch_loop(Tail(rows), header_count,
                    Append(stored, normalize(py_items(rows[1]))))

\* the body of add_data after _create_sheet, on the sheet's entry
add_data_entry(entry, data) ==
    IF data.kind # "list"
    THEN [err |-> ErrDataType, data |-> entry.data]
    ELSE IF Len(data.items) = 0
    THEN [err |-> ErrIndex, data |-> entry.data]
    ELSE IF data.items[1].kind = "list"
    THEN batch_loop(data.items, Len(entry.headers), entry.data)
    ELSE IF Len(data.items) = Len(entry.headers)
    THEN [err |-> ErrNone, data |-> Append(entry.data, normalize(data.items))]
    ELSE [err |-> ErrColumnCount, data |-> entry.data]

\* sheet_headers.index(header), 0-based
header_index_one_based(sheet_headers, header) ==
    CHOOSE i \in 1..Len(sheet_headers) :
        /\ sheet_headers[i] = header
        /\ \A j \in 1..(i-1) : sheet_headers[j] # header

header_index(sheet_headers, header) ==
    (CHOOSE i \in 1..Len(sheet_headers) :
        /\ sheet_headers[i] = header
        /\ \A j \in 1..(i-1) : sheet_headers[j] # header) - 1

in_headers(sheet_headers, header) ==
    \E i \in 1..Len(sheet_headers) : sheet_headers[i] = header

\* headers = [headers] if isinstance(headers, str) else list(headers)
sort_header_list(headers) ==
    IF headers.kind = "name" THEN <<headers.v>> ELSE headers.items

----------------------------------------------------------------------------
(* The operations of the table store *)

MaxCalls == 4

set_entry(od, sheet_name, entry) ==
    [od EXCEPT ![sheet_index(od, sheet_name)] = entry]

call(op, self, sheet_name, arg, err) ==
    [op |-> op, self |-> self, sheet |-> sheet_name, arg |-> arg, err |-> err]

add_headers(self, sheet_name, data) ==
    LET od == _create_sheet(output_data[self], sheet_name)
        data_list == data
        dup == has_duplicates(data_list)
        entry == get_sheet(od, sheet_name)
    IN /\ ncalls < MaxCalls
       /\ ncalls' = ncalls + 1
       /\ output_data' =
            [output_data EXCEPT ![self] =
                IF dup THEN od
                ELSE set_entry(od, sheet_name, [entry EXCEPT !.headers = data_list])]
       /\ ret' = call("add_headers", self, sheet_name, data,
                      IF dup THEN ErrDuplicateHeader ELSE ErrNone)
       /\ UNCHANGED <<cell_styles, table_styles, frozen_columns, excel_workbook,
                      sort_request, sortVars, colVars>>

add_data(self, sheet_name, data) ==
    LET od == _create_sheet(output_data[self], sheet_name)
        entry == get_sheet(od, sheet_name)
        res == add_data_entry(entry, data)
    IN /\ ncalls < MaxCalls
       /\ ncalls' = ncalls + 1
       /\ output_data' =
            [output_data EXCEPT ![self] =
                set_entry(od, sheet_name, [entry EXCEPT !.data = res.data])]
       /\ ret' = call("add_data", self, sheet_name, data, res.err)
       /\ UNCHANGED <<cell_styles, table_styles, frozen_columns, excel_workbook,
                      sort_request, sortVars, colVars>>

sort_data(self, sheet_name, headers) ==
    LET od == output_data[self]
        known == has_sheet(od, sheet_name)
        entry == get_sheet(od, sheet_name)
        hs == sort_header_list(headers)
        bad == \E i \in 1..Len(hs) : ~in_headers(entry.headers, hs[i])
        sort_keys == [i \in 1..Len(hs) |-> header_index(entry.headers, hs[i])]
    IN /\ ncalls < MaxCalls
       /\ ncalls' = ncalls + 1
       /\ IF ~known
          THEN /\ UNCHANGED <<output_data, sort_request>>
               /\ ret' = call("sort_data", self, sheet_name, headers, ErrNoSortSheet)
          ELSE IF bad
          THEN /\ UNCHANGED <<output_data, sort_request>>
               /\ ret' = call("sort_data", self, sheet_name, headers, ErrSortHeader)
          ELSE /\ output_data' =
                    [output_data EXCEPT ![self] =
                        set_entry(od, sheet_name,
                                  [entry EXCEPT !.sort_keys = sort_keys])]
               /\ sort_request' =
                    [sort_request EXCEPT ![self] =
                        (sheet_name :> [names |-> hs, headers |-> entry.headers]) @@ @]
               /\ ret' = call("sort_data", self, sheet_name, headers, ErrNone)
       /\ UNCHANGED <<cell_styles, table_styles, frozen_columns, excel_workbook,
                      sortVars, colVars>>

----------------------------------------------------------------------------
(* Formatting rules and freeze targets: class attributes, one dict shared  *)
(* by every instance (lines 61-63; __init__ rebinds output_data only)      *)

Color(hashes, hex) == [kind |-> "color", hashes |-> hashes, hex |-> hex]

\* bg_color.lstrip('#')
lstrip_hash(c) == [c EXCEPT !.hashes = 0]

Dict(formula, bg_color) ==
    [kind |-> "dict", formula |-> formula, bg_color |-> bg_color]

\* truth value of a formula or colour read with rule.get
truthy(v) ==
    IF v.kind = "none" THEN FALSE
    ELSE IF v.kind = "list" THEN Len(v.items) > 0
    ELSE IF v.kind = "color" THEN v.hashes > 0 \/ v.hex # ""
    ELSE TRUE

Rule(formula, bg_color) ==
    [type |-> "expression", bgColor |-> lstrip_hash(bg_color),
     formula |-> formula, stopIfTrue |-> FALSE]

\* dict.get(key, default) on a function whose domain is the set of keys
dict_get(d, key, default) == IF key \in DOMAIN d THEN d[key] ELSE default

dict_set(d, key, value) == (key :> value) @@ d

\* self.cell_styles[sheet_name].setdefault(header, []).append(style)
append_style(entries, header, style) ==
    IF \E i \in 1..Len(entries) : entries[i].header = header
    THEN [i \in 1..Len(entries) |->
            IF entries[i].header = header
            THEN [entries[i] EXCEPT !.rules = Append(@, style)]
            ELSE entries[i]]
    ELSE Append(entries, [header |-> header, rules |-> <<style>>])

format_cells(self, sheet_name, header, rule, bg_color) ==
    /\ ncalls < MaxCalls
    /\ ncalls' = ncalls + 1
    /\ cell_styles' =
          dict_set(cell_styles, sheet_name,
                   append_style(dict_get(cell_styles, sheet_name, <<>>), header,
                                [rule |-> rule, bg_color |-> bg_color]))
    /\ ret' = call("format_cells", self, sheet_name, header, ErrNone)
    /\ UNCHANGED <<output_data, table_styles, frozen_columns, excel_workbook,
                   sort_request, sortVars, colVars>>

RECURSIVE table_rules(_)
\* the loop of lines 215-232: a rule without formula or bg_color is skipped
table_rules(rules) ==
    IF Len(rules) = 0 THEN <<>>
    ELSE IF ~(truthy(rules[1].formula) /\ truthy(rules[1].bg_color))
    THEN table_rules(Tail(rules))
    ELSE <<Rule(rules[1].formula, rules[1].bg_color)>> \o table_rules(Tail(rules))

conditional_format(self, sheet_name, rules) ==
    LET well_formed ==
            /\ rules.kind = "list"
            /\ \A i \in 1..Len(rules.items) : rules.items[i].kind = "dict"
    IN /\ ncalls < MaxCalls
       /\ ncalls' = ncalls + 1
       /\ table_styles' =
            IF ~well_formed THEN table_styles
            ELSE dict_set(table_styles, sheet_name,
                          dict_get(table_styles, sheet_name, <<>>)
                              \o table_rules(rules.items))
       /\ ret' = call("conditional_format", self, sheet_name, rules, ErrNone)
       /\ UNCHANGED <<output_data, cell_styles, frozen_columns, excel_workbook,
                      sort_request, sortVars, colVars>>

freeze_column_after(self, sheet_name, column_name) ==
    /\ ncalls < MaxCalls
    /\ ncalls' = ncalls + 1
    /\ frozen_columns' = dict_set(frozen_columns, sheet_name, column_name)
    /\ ret' = call("freeze_column_after", self, sheet_name, column_name, ErrNone)
    /\ UNCHANGED <<output_data, cell_styles, table_styles, excel_workbook,
                   sort_request, sortVars, colVars>>

----------------------------------------------------------------------------
(* ExcelWrapper.export_excel *)

_merge_data_unchecked(entry) ==
    LET header_count == Len(entry.headers) IN
    IF header_count = 0 THEN [err |-> ErrNoHeaders, rows |-> <<>>]
    ELSE [err |-> ErrNone, rows |-> <<entry.headers>> \o entry.data]

\* ExcelWrapper._merge_data: the header row followed by the data rows
_merge_data(entry) ==
    LET header_count == Len(entry.headers) IN
    IF header_count = 0 THEN [err |-> ErrNoHeaders, rows |-> <<>>]
    ELSE IF \E i \in 1..Len(entry.data) : header_count # Len(entry.data[i])
    THEN [err |-> ErrMergeColumnCount, rows |-> <<>>]
    ELSE [err |-> ErrNone, rows |-> <<entry.headers>> \o entry.data]

\* a cell reference: column letters and row number
Cell(column, row) == [column |-> column, row |-> row]

Range(first, last) == [first |-> first, last |-> last]

RECURSIVE max_width(_)
\* Worksheet.max_column: the widest appended row
max_width(rows) ==
    IF Len(rows) = 0 THEN 0
    ELSE LET m == max_width(Tail(rows)) IN
         IF Len(rows[1]) > m THEN Len(rows[1]) ELSE m

RECURSIVE header_rules(_, _, _, _)
\* the loops of lines 274-295 over the rules of one header
header_rules(rules, header_col, max_row, acc) ==
    IF Len(rules) = 0 THEN acc
    ELSE header_rules(Tail(rules), header_col, max_row,
            Append(acc, [ref |-> Range(Cell(header_col, 2), Cell(header_col, max_row)),
                         rule |-> Rule(<<rules[1].rule>>, rules[1].bg_color)]))

RECURSIVE apply_cell_styles(_, _, _, _)
\* headers.index(header) raises ValueError for a header the sheet lacks
apply_cell_styles(entries, headers, max_row, acc) ==
    IF Len(entries) = 0 THEN [err |-> ErrNone, cf |-> acc]
    ELSE IF ~in_headers(headers, entries[1].header)
    THEN [err |-> ErrValue, cf |-> acc]
    ELSE apply_cell_styles(Tail(entries), headers, max_row,
            header_rules(entries[1].rules,
                         _col_to_excel(header_index(headers, entries[1].header) + 1),
                         max_row, acc))

apply_table_styles(styles, max_column, max_row) ==
    [i \in 1..Len(styles) |->
        [ref |-> Range(Cell(<<"A">>, 2), Cell(max_column, max_row)),
         rule |-> styles[i]]]

\* the anchor cell of line 122 for the header found at 1-based column_number
freeze_cell_at_header(column_number) == Cell(_col_to_excel(column_number), 1)

freeze_cell(column_number) == Cell(_col_to_excel(column_number + 1), 1)

\* ExcelWrapper._freeze_columns on a sheet whose first row is header_row
_freeze_columns(title, header_row, fc) ==
    IF title \notin DOMAIN fc THEN [err |-> ErrNone, freeze_panes |-> <<>>]
    ELSE IF ~in_headers(header_row, fc[title])
    THEN [err |-> ErrInvalidHeader, freeze_panes |-> <<>>]
    ELSE [err |-> ErrNone,
          freeze_panes |-> <<freeze_cell(header_index(header_row, fc[title]) + 1)>>]

new_sheet(title) ==
    [title |-> title, rows |-> <<>>, tables |-> <<>>,
     conditional_formatting |-> <<>>, freeze_panes |-> <<>>]

\* lines 303-304 on the worksheet ws (column widths are not part of the model)
freeze_step(entry, ws, fc) ==
    LET frozen == _freeze_columns(ws.title, ws.rows[1], fc) IN
    [entry |-> entry,
     ws |-> [ws EXCEPT !.freeze_panes = frozen.freeze_panes],
     err |-> frozen.err]

\* lines 257-301: the table and the conditional formats of the worksheet ws
\* (sheet names hold no space, so sheet_name.replace(' ', '') is the name)
style_step(entry, ws, cs, ts, fc) ==
    LET max_column == _col_to_excel(max_width(ws.rows))
        max_row == Len(ws.rows)
        table == [displayName |-> entry.name,
                  ref |-> Range(Cell(<<"A">>, 1), Cell(max_column, max_row))]
        styled == apply_cell_styles(dict_get(cs, entry.name, <<>>),
                                    entry.headers, max_row, <<>>)
        table_cf == apply_table_styles(dict_get(ts, entry.name, <<>>),
                                       max_column, max_row)
    IN  IF styled.err # ErrNone
        THEN [entry |-> entry,
              ws |-> [ws EXCEPT !.tables = <<table>>,
                                !.conditional_formatting = styled.cf],
              err |-> styled.err]
        ELSE freeze_step(entry,
                         [ws EXCEPT !.tables = <<table>>,
                                    !.conditional_formatting = styled.cf \o table_cf],
                         fc)

merge_step_emit_first(entry, ws, cs, ts, fc) ==
    LET merged == _merge_data(entry) IN
    IF merged.err # ErrNone
    THEN [entry |-> entry, ws |-> [ws EXCEPT !.rows = <<entry.headers>>],
          err |-> merged.err]
    ELSE style_step(entry, [ws EXCEPT !.rows = merged.rows], cs, ts, fc)

\* lines 254-255: the merged rows are appended once _merge_data has returned
merge_step(entry, ws, cs, ts, fc) ==
    LET merged == _merge_data(entry) IN
    IF merged.err # ErrNone THEN [entry |-> entry, ws |-> ws, err |-> merged.err]
    ELSE style_step(entry, [ws EXCEPT !.rows = merged.rows], cs, ts, fc)

\* lines 249-252: the stored rows are sorted in place
sort_step(entry, ws, cs, ts, fc) ==
    LET sorted == IF Len(entry.sort_keys) > 0
                  THEN natural_sort_multiple_columns(entry.data, entry.sort_keys)
                  ELSE [err |-> ErrNone, data |-> entry.data]
    IN  IF sorted.err # ErrNone THEN [entry |-> entry, ws |-> ws, err |-> sorted.err]
        ELSE merge_step([entry EXCEPT !.data = sorted.data], ws, cs, ts, fc)

\* one iteration of the loop of lines 242-304 for a sheet that has data:
\* the entry after the in-place sort, the worksheet as far as it got, the error
export_sheet(entry, cs, ts, fc) ==
    sort_step(entry, new_sheet(entry.name), cs, ts, fc)

RECURSIVE export_loop(_, _, _, _, _, _)
\* the loop of lines 242-304: a sheet without data is skipped, an error ends
\* the loop with the worksheets created so far
export_loop(od, i, sheets, cs, ts, fc) ==
    IF i > Len(od) THEN [od |-> od, sheets |-> sheets, err |-> ErrNone]
    ELSE IF Len(od[i].data) = 0 THEN export_loop(od, i + 1, sheets, cs, ts, fc)
    ELSE LET r == export_sheet(od[i], cs, ts, fc)
             od1 == [od EXCEPT ![i] = r.entry]
         IN  IF r.err # ErrNone
             THEN [od |-> od1, sheets |-> Append(sheets, r.ws), err |-> r.err]
             ELSE export_loop(od1, i + 1, Append(sheets, r.ws), cs, ts, fc)

\* Workbook.save raises IndexError for a workbook without sheets (caught,
\* line 308); the finally clause closes the workbook on both paths
save_and_close(sheets) ==
    [sheets |-> sheets, created |-> TRUE, saved |-> Len(sheets) > 0, closed |-> TRUE]

NoWorkbook == [sheets |-> <<>>, created |-> FALSE, saved |-> FALSE, closed |-> FALSE]

export_excel(self) ==
    LET r == export_loop(output_data[self], 1, <<>>,
                         cell_styles, table_styles, frozen_columns)
    IN /\ ncalls < MaxCalls
       /\ ncalls' = ncalls + 1
       /\ output_data' = [output_data EXCEPT ![self] = r.od]
       /\ excel_workbook' =
            IF r.err # ErrNone
            THEN [sheets |-> r.sheets, created |-> TRUE, saved |-> FALSE,
                  closed |-> FALSE]
            ELSE save_and_close(r.sheets)
       /\ ret' = call("export_excel", self, "", <<>>, r.err)
       /\ UNCHANGED <<cell_styles, table_styles, frozen_columns, sort_request,
                      sortVars, colVars>>

----------------------------------------------------------------------------
(* Specifications *)

ValX == PyStr(<<"x">>)

HeaderInputs ==
    { <<>>, <<"A">>, <<"A", "B">>, <<"B", "A">>, <<"A", "A">>, <<"A", "B", "A">> }

RowInputs ==
    { PyList(<<>>), PyList(<<ValX>>), PyList(<<ValX, PyNone>>) }

BatchInputs ==
    { PyList(<<PyList(<<>>)>>),
      PyList(<<PyList(<<ValX>>), PyList(<<PyNone>>)>>),
      PyList(<<PyList(<<PyNone, ValX>>), PyList(<<ValX, ValX>>)>>),
      PyList(<<PyList(<<ValX>>), PyList(<<ValX, ValX>>), PyList(<<ValX>>)>>) }

DataInputs == RowInputs \cup BatchInputs

SortInputs ==
    { [kind |-> "name", v |-> "A"],
      [kind |-> "list", items |-> <<"B">>],
      [kind |-> "list", items |-> <<"B", "A">>] }

Pink == Color(1, "E6B8B7")

TableRuleInputs ==
    { PyList(<<Dict(PyList(<<"$A2 = 1">>), Pink), Dict(PyList(<<"$A2 = 2">>), PyNone)>>),
      PyList(<<PyStr(<<"x">>)>>) }

InitStore ==
    /\ output_data = [i \in Instances |-> <<>>]
    /\ cell_styles = <<>>
    /\ table_styles = <<>>
    /\ frozen_columns = <<>>
    /\ excel_workbook = NoWorkbook
    /\ ret = call("__init__", "", "", <<>>, ErrNone)
    /\ ncalls = 0
    /\ sort_request = [i \in Instances |-> <<>>]

IdleSort ==
    /\ sort_in = <<>>
    /\ sort_keys_in = <<>>
    /\ sort_out = [err |-> "idle", data |-> <<>>]

NotCalled == [called |-> FALSE, value |-> <<>>]

IdleCol == col = 0 /\ excel_col = NotCalled

Init == InitStore /\ IdleSort /\ IdleCol

Next ==
    \E self \in {"a"} :
        \/ \E s \in SheetNames, h \in HeaderInputs : add_headers(self, s, h)
        \/ \E s \in SheetNames, d \in DataInputs : add_data(self, s, d)
        \/ \E s \in SheetNames, h \in SortInputs : sort_data(self, s, h)
        \/ \E s \in SheetNames, h \in HeaderNames : freeze_column_after(self, s, h)
        \/ \E s \in SheetNames, h \in HeaderNames :
                format_cells(self, s, h, "$A2 = 1", Pink)
        \/ \E s \in SheetNames, r \in TableRuleInputs : conditional_format(self, s, r)
        \/ export_excel(self)

Spec == Init /\ [][Next]_vars

(* Two wrapper instances used side by side *)

SharedHeaderInputs == { <<"A">>, <<"A", "B">> }

SharedDataInputs == { PyList(<<ValX>>), PyList(<<ValX, PyNone>>) }

NextShared ==
    \E self \in Instances :
        \/ \E s \in SheetNames, h \in SharedHeaderInputs : add_headers(self, s, h)
        \/ \E s \in SheetNames, d \in SharedDataInputs : add_data(self, s, d)
        \/ \E s \in SheetNames, h \in SortInputs : sort_data(self, s, h)
        \/ \E s \in SheetNames, h \in HeaderNames : freeze_column_after(self, s, h)
        \/ \E s \in SheetNames, h \in HeaderNames :
                format_cells(self, s, h, "$A2 = 1", Pink)
        \/ \E s \in SheetNames, r \in TableRuleInputs : conditional_format(self, s, r)
        \/ export_excel(self)

SpecShared == Init /\ [][NextShared]_vars

(* natural_sort_multiple_columns applied to bounded lists *)

SortColumn0 ==
    { PyStr(<<"i", "1">>), PyStr(<<"i", "2">>), PyStr(<<"i", "1", "0">>),
      PyStr(<<"I", "0", "1">>) }

SortColumn1 == { PyStr(<<"b">>), PyInt(2) }

SortRows == { <<c0, c1>> : c0 \in SortColumn0, c1 \in SortColumn1 }

SortLists == UNION { [1..n -> SortRows] : n \in 0..MaxSortRows }

SortKeyInputs == { <<0>>, <<1>>, <<0, 1>>, <<1, 0>>, <<2>> }

InitSort ==
    /\ InitStore
    /\ IdleCol
    /\ sort_in \in SortLists
    /\ sort_keys_in \in SortKeyInputs
    /\ sort_out = [err |-> "idle", data |-> <<>>]

SortCall ==
    /\ sort_out.err = "idle"
    /\ sort_out' = natural_sort_multiple_columns(sort_in, sort_keys_in)
    /\ UNCHANGED <<sort_in, sort_keys_in, storeVars, colVars>>

NextSort == SortCall

SpecSort == InitSort /\ [][NextSort]_vars

(* _col_to_excel applied to the column indexes 1..MaxCol *)

InitCol ==
    /\ InitStore
    /\ IdleSort
    /\ col \in 1..MaxCol
    /\ excel_col = NotCalled

ColCall ==
    /\ ~excel_col.called
    /\ excel_col' = [called |-> TRUE, value |-> _col_to_excel(col)]
    /\ UNCHANGED <<col, storeVars, sortVars>>

NextCol == ColCall

SpecCol == InitCol /\ [][NextCol]_vars

----------------------------------------------------------------------------
(* Properties of the column-letter encoding (checked under SpecCol) *)

\* the value 1..26 of a capital letter, 0 for any other character
letter_value(c) ==
    IF \E i \in 1..26 : UPPER[i] = c THEN CHOOSE i \in 1..26 : UPPER[i] = c ELSE 0

RECURSIVE letters_value(_)
\* bijective base 26: the sum of letter value * 26^position
letters_value(s) ==
    IF Len(s) = 0 THEN 0
    ELSE 26 * letters_value(SubSeq(s, 1, Len(s) - 1)) + letter_value(s[Len(s)])

ColumnExamples ==
    /\ (col = 1 => excel_col.value = <<"A">>)
    /\ (col = 26 => excel_col.value = <<"Z">>)
    /\ (col = 27 => excel_col.value = <<"A", "A">>)
    /\ (col = 52 => excel_col.value = <<"A", "Z">>)
    /\ (col = 702 => excel_col.value = <<"Z", "Z">>)
    /\ (col = 703 => excel_col.value = <<"A", "A", "A">>)

\* C10: for every column index n in 1..MaxCol, _col_to_excel(n) is the
\* bijective base-26 designation of n: it is non-empty, uses only A..Z,
\* decodes back to n, differs from the designation of every other index, and
\* 1->A, 26->Z, 27->AA, 52->AZ, 702->ZZ, 703->AAA.
C10_ColumnLetters ==
    excel_col.called =>
        /\ Len(excel_col.value) > 0
        /\ \A i \in 1..Len(excel_col.value) : letter_value(excel_col.value[i]) > 0
        /\ letters_value(excel_col.value) = col
        /\ \A m \in 1..MaxCol : m # col => _col_to_excel(m) # excel_col.value
        /\ ColumnExamples

C10_Witness == excel_col.called /\ col = 703 /\ Len(excel_col.value) = 3

----------------------------------------------------------------------------
(* Properties of the natural multi-key sort (checked under SpecSort) *)

Injections(n) == { f \in [1..n -> 1..n] : \A i, j \in 1..n : i # j => f[i] # f[j] }

composite_cmp(r1, r2) ==
    row_key_cmp(row_key(r1, sort_keys_in), row_key(r2, sort_keys_in))

\* out is in with its rows rearranged by p, non-decreasing in the composite
\* key, rows of equal key in their original order
StableSorted(in, out, p) ==
    /\ \A i \in 1..Len(in) : out[i] = in[p[i]]
    /\ \A i \in 1..(Len(in) - 1) : composite_cmp(out[i], out[i + 1]) \in {"lt", "eq"}
    /\ \A i, j \in 1..Len(in) :
          (i < j /\ composite_cmp(out[i], out[j]) = "eq") => p[i] < p[j]

SortRow(c0) == <<PyStr(c0), PyStr(<<"b">>)>>

SortExamples ==
    /\ (sort_keys_in = <<0>>
          /\ sort_in = <<SortRow(<<"i","2">>), SortRow(<<"i","1","0">>),
                         SortRow(<<"i","1">>)>>)
        => sort_out.data = <<SortRow(<<"i","1">>), SortRow(<<"i","2">>),
                             SortRow(<<"i","1","0">>)>>
    /\ (sort_keys_in = <<0>>
          /\ sort_in = <<SortRow(<<"i","2">>), SortRow(<<"i","1">>),
                         SortRow(<<"I","0","1">>)>>)
        => sort_out.data = <<SortRow(<<"i","1">>), SortRow(<<"I","0","1">>),
                             SortRow(<<"i","2">>)>>

KeysInRange ==
    \A i \in 1..Len(sort_in), k \in 1..Len(sort_keys_in) :
        sort_keys_in[k] < Len(sort_in[i])

\* C4: the multi-key natural sort leaves a permutation of the same rows, in
\* non-decreasing order of the composite key (digit runs by value, text
\* case-insensitively: i1 < i2 < i10), and rows with fully equal composite
\* keys keep their original relative order.
C4_NaturalSortStable ==
    (sort_out.err # "idle" /\ KeysInRange) =>
        /\ sort_out.err = "none"
        /\ Len(sort_out.data) = Len(sort_in)
        /\ \E p \in Injections(Len(sort_in)) : StableSorted(sort_in, sort_out.data, p)
        /\ SortExamples

C4_Witness ==
    /\ sort_out.err = "none"
    /\ sort_keys_in = <<0, 1>>
    /\ Len(sort_in) = 3
    /\ sort_out.data # sort_in
    /\ composite_cmp(sort_out.data[1], sort_out.data[2]) = "eq"
    /\ sort_out.data[1] # sort_out.data[2]

----------------------------------------------------------------------------
(* Properties of the table store (checked under Spec) *)

NoSheet == [headers |-> <<>>, data |-> <<>>, sort_keys |-> <<>>]

\* headers, rows and sort keys of a sheet; a sheet never referenced has none
sheet_view(od, sheet_name) ==
    IF has_sheet(od, sheet_name)
    THEN [headers |-> get_sheet(od, sheet_name).headers,
          data |-> get_sheet(od, sheet_name).data,
          sort_keys |-> get_sheet(od, sheet_name).sort_keys]
    ELSE NoSheet

Repeats(h) == \E i, j \in 1..Len(h) : i < j /\ h[i] = h[j]

\* C1: add_headers with a header list that repeats a value fails with the
\* duplicate-header error and leaves the sheet's headers as they were (empty
\* for a sheet without headers), and its rows, its sort keys, every other
\* sheet and every other instance unchanged.
C1_DuplicateHeadersRejected ==
    [][(ret'.op = "add_headers" /\ Repeats(ret'.arg)) =>
          /\ ret'.err = ErrDuplicateHeader
          /\ \A t \in SheetNames :
                sheet_view(output_data'[ret'.self], t)
                    = sheet_view(output_data[ret'.self], t)
          /\ \A t \in SheetNames \ {ret'.sheet} :
                has_sheet(output_data'[ret'.self], t)
                    = has_sheet(output_data[ret'.self], t)
          /\ \A i \in Instances \ {ret'.self} : output_data'[i] = output_data[i]
      ]_vars

C1_Witness ==
    /\ ret.op = "add_headers"
    /\ ret.err = ErrDuplicateHeader
    /\ ret.arg = <<"A", "B", "A">>
    /\ sheet_view(output_data[ret.self], ret.sheet).headers = <<"B", "A">>
    /\ sheet_view(output_data[ret.self], ret.sheet).data # <<>>

\* the rows of an add_data input: the input itself, or the elements of a batch
input_is_batch(data) == Len(data.items) > 0 /\ data.items[1].kind = "list"

input_rows(data) ==
    IF input_is_batch(data) THEN [i \in 1..Len(data.items) |-> data.items[i].items]
    ELSE <<data.items>>

none_to_empty(row) ==
    [i \in 1..Len(row) |-> IF row[i].kind = "none" THEN PyStr(<<>>) ELSE row[i]]

\* the rows before the first row whose length differs from header_count
rows_before_mismatch(rows, header_count) ==
    LET bad == { i \in 1..Len(rows) : Len(rows[i]) # header_count }
        first == CHOOSE i \in bad : \A j \in bad : i <= j
    IN  SubSeq(rows, 1, first - 1)

\* C2: add_data fails with the column-count-mismatch error exactly when some
\* input row's length differs from the sheet's header count; a failed call
\* appends exactly the batch rows before the first offending row (none in
\* single-row form), a successful call appends every input row in order with
\* each None replaced by the empty string.
C2_AddDataColumnCount ==
    [][ret'.op = "add_data" =>
          LET before == sheet_view(output_data[ret'.self], ret'.sheet)
              after == sheet_view(output_data'[ret'.self], ret'.sheet)
              header_count == Len(before.headers)
              rows == input_rows(ret'.arg)
              mismatch == \E i \in 1..Len(rows) : Len(rows[i]) # header_count
              expected == IF mismatch THEN rows_before_mismatch(rows, header_count)
                          ELSE rows
          IN  /\ (ret'.err = ErrColumnCount) <=> mismatch
              /\ ~mismatch => ret'.err = ErrNone
              /\ after.data
                   = before.data \o [i \in 1..Len(expected) |-> none_to_empty(expected[i])]
      ]_vars

\* C2 for a call whose input holds at least one element
C2_NonEmptyInput ==
    [][(ret'.op = "add_data" /\ Len(ret'.arg.items) > 0) =>
          LET before == sheet_view(output_data[ret'.self], ret'.sheet)
              after == sheet_view(output_data'[ret'.self], ret'.sheet)
              header_count == Len(before.headers)
              rows == input_rows(ret'.arg)
              mismatch == \E i \in 1..Len(rows) : Len(rows[i]) # header_count
              expected == IF mismatch THEN rows_before_mismatch(rows, header_count)
                          ELSE rows
          IN  /\ (ret'.err = ErrColumnCount) <=> mismatch
              /\ ~mismatch => ret'.err = ErrNone
              /\ after.data
                   = before.data \o [i \in 1..Len(expected) |-> none_to_empty(expected[i])]
      ]_vars

\* a batch that failed at its second row, after its first row was appended
C2_Witness ==
    /\ ret.op = "add_data"
    /\ ret.err = ErrColumnCount
    /\ input_is_batch(ret.arg)
    /\ Len(ret.arg.items[1].items) = 1
    /\ Len(sheet_view(output_data[ret.self], ret.sheet).headers) = 1
    /\ Len(sheet_view(output_data[ret.self], ret.sheet).data) = 1

----------------------------------------------------------------------------
(* Properties of the export (checked under Spec) *)

Exported == ret.op = "export_excel"

RECURSIVE with_data(_)
\* the logical sheets that hold at least one data row, in insertion order
with_data(od) ==
    IF Len(od) = 0 THEN <<>>
    ELSE IF Len(od[1].data) > 0 THEN <<od[1]>> \o with_data(Tail(od))
    ELSE with_data(Tail(od))

\* C3: after an export that completes, the workbook holds exactly one
\* physical sheet per logical sheet with at least one data row and none for a
\* sheet without data rows; each physical sheet has 1 + (stored data rows)
\* rows, the header row first, and as many columns as the sheet has headers.
C3_ExportedSheets ==
    (Exported /\ ret.err = ErrNone) =>
        LET logical == with_data(output_data[ret.self])
            physical == excel_workbook.sheets
        IN  /\ Len(physical) = Len(logical)
            /\ \A i \in 1..Len(logical) :
                  /\ physical[i].title = logical[i].name
                  /\ Len(physical[i].rows) = 1 + Len(logical[i].data)
                  /\ physical[i].rows[1] = logical[i].headers
                  /\ \A j \in 1..Len(logical[i].data) :
                        physical[i].rows[j + 1] = logical[i].data[j]
                  /\ \A j \in 1..Len(physical[i].rows) :
                        Len(physical[i].rows[j]) = Len(logical[i].headers)
                  /\ letters_value(physical[i].tables[1].ref.last.column)
                        = Len(logical[i].headers)

\* a completed export of two logical sheets, one of them without data rows
C3_Witness ==
    /\ Exported
    /\ ret.err = ErrNone
    /\ Len(output_data[ret.self]) = 2
    /\ Len(excel_workbook.sheets) = 1
    /\ Len(excel_workbook.sheets[1].rows) = 2
    /\ excel_workbook.saved

\* 1-based column of the first cell of header_row that holds header, 0 if none
column_of(header_row, header) ==
    IF \E i \in 1..Len(header_row) : header_row[i] = header
    THEN CHOOSE i \in 1..Len(header_row) :
            /\ header_row[i] = header
            /\ \A j \in 1..(i - 1) : header_row[j] # header
    ELSE 0

\* the physical sheets of the last export on which _freeze_columns found the
\* configured freeze target
FreezeFound ==
    { i \in 1..Len(excel_workbook.sheets) :
        LET ws == excel_workbook.sheets[i] IN
        /\ ws.title \in DOMAIN frozen_columns
        /\ Len(ws.rows) > 0
        /\ column_of(ws.rows[1], frozen_columns[ws.title]) > 0
        /\ (i < Len(excel_workbook.sheets) \/ ret.err = ErrNone) }

FreezeAnchorAt(row) ==
    Exported =>
        \A i \in FreezeFound :
            LET ws == excel_workbook.sheets[i] IN
            /\ Len(ws.freeze_panes) = 1
            /\ ws.freeze_panes[1].row = row
            /\ letters_value(ws.freeze_panes[1].column)
                  = column_of(ws.rows[1], frozen_columns[ws.title]) + 1

\* C5 as stated: the freeze target found at 1-based column c puts the
\* frozen-pane anchor at row 2, column c+1.
C5_FreezeAnchorRow2 == FreezeAnchorAt(2)

\* C5 amended: the freeze target found at 1-based column c puts the
\* frozen-pane anchor at row 1, column c+1 (the columns up to the named one
\* are frozen, no row is).
C5_FreezeAnchorRow1 == FreezeAnchorAt(1)

C5_Witness ==
    /\ Exported
    /\ ret.err = ErrNone
    /\ \E i \in FreezeFound :
          /\ frozen_columns[excel_workbook.sheets[i].title] = "B"
          /\ excel_workbook.sheets[i].rows[1] = <<"A", "B">>
          /\ excel_workbook.sheets[i].freeze_panes = <<Cell(<<"C">>, 1)>>

\* C6: the workbook opened by export is closed on every exit path of export,
\* the aborted ones included.
C6_ClosedOnEveryExit == Exported => excel_workbook.closed

ValidationErrors == {ErrNoHeaders, ErrMergeColumnCount}

\* C7 as stated: when a validation error found at export time aborts the
\* export, the workbook holds no physical sheet.
C7_NoSheetAtAbort ==
    (Exported /\ ret.err \in ValidationErrors) => Len(excel_workbook.sheets) = 0

\* C7 amended: when a validation error found at export time aborts the
\* export, nothing is saved, the offending sheet has been created as the last
\* physical sheet and holds no row, and before it come the physical sheets of
\* the non-empty sheets processed earlier, each with its rows emitted.
C7_EmptySheetAtAbort ==
    (Exported /\ ret.err \in ValidationErrors) =>
        LET logical == with_data(output_data[ret.self])
            physical == excel_workbook.sheets
            n == Len(physical)
        IN  /\ ~excel_workbook.saved
            /\ n >= 1
            /\ n <= Len(logical)
            /\ physical[n].title = logical[n].name
            /\ physical[n].rows = <<>>
            /\ \/ Len(logical[n].headers) = 0
               \/ \E j \in 1..Len(logical[n].data) :
                     Len(logical[n].data[j]) # Len(logical[n].headers)
            /\ \A i \in 1..(n - 1) :
                  /\ physical[i].title = logical[i].name
                  /\ Len(physical[i].rows) = 1 + Len(logical[i].data)

\* an abort on the second non-empty sheet, after the first was emitted
C7_Witness ==
    /\ Exported
    /\ ret.err = ErrNoHeaders
    /\ Len(excel_workbook.sheets) = 2
    /\ Len(excel_workbook.sheets[1].rows) = 2

----------------------------------------------------------------------------
(* Validity of the stored sort keys (checked under Spec) *)

KeysName(keys, names, headers) ==
    /\ Len(keys) = Len(names)
    /\ \A i \in 1..Len(keys) :
          /\ 0 <= keys[i]
          /\ keys[i] < Len(headers)
          /\ headers[keys[i] + 1] = names[i]

\* C8 as stated: in every reachable state each stored sort key k of a sheet
\* satisfies 0 <= k < len(headers) and headers[k] is the name passed to
\* sort_data.
C8_SortKeysValid ==
    \A self \in Instances : \A i \in 1..Len(output_data[self]) :
        LET entry == output_data[self][i] IN
        entry.name \in DOMAIN sort_request[self] =>
            KeysName(entry.sort_keys, sort_request[self][entry.name].names,
                     entry.headers)

\* C8 amended: each stored sort key k satisfies 0 <= k < len(H) and H[k] is
\* the name passed to sort_data, where H is the sheet's header list at the
\* time of that sort_data call; so the keys are valid for the current header
\* list as long as add_headers has not changed it since.
C8_SortKeysValidWhenSet ==
    \A self \in Instances : \A i \in 1..Len(output_data[self]) :
        LET entry == output_data[self][i]
            known == entry.name \in DOMAIN sort_request[self]
        IN  /\ ~known => entry.sort_keys = <<>>
            /\ known =>
                 LET request == sort_request[self][entry.name] IN
                 /\ KeysName(entry.sort_keys, request.names, request.headers)
                 /\ entry.headers = request.headers =>
                        KeysName(entry.sort_keys, request.names, entry.headers)

\* two sort keys stored in an order other than the header order
C8_Witness ==
    \E i \in 1..Len(output_data["a"]) :
        /\ output_data["a"][i].sort_keys = <<1, 0>>
        /\ output_data["a"][i].headers = <<"A", "B">>
        /\ Len(output_data["a"][i].data) > 0

----------------------------------------------------------------------------
(* Independence of wrapper instances (checked under SpecShared) *)

\* what an instance reads through self: its own output_data, and the three
\* rule dicts, which resolve to the class attributes
instance_state(self) ==
    [output_data |-> output_data[self],
     cell_styles |-> cell_styles,
     table_styles |-> table_styles,
     frozen_columns |-> frozen_columns]

\* C9: no operation on one instance changes the sheets, the header-scoped
\* rules, the table-wide rules or the freeze targets of another instance.
C9_InstancesIndependent ==
    [][\A other \in Instances \ {ret'.self} :
          instance_state(other)' = instance_state(other)]_vars

====
